---- MODULE Spec2Model ----
(***************************************************************************)
(* A model of src/viewsets.py: the extended_route decorator's wrapper and  *)
(* the ExtendedViewSetMixin that applies it to retrieve and list.          *)
(*                                                                         *)
(* Strings of the query string are sequences of one-character strings, so  *)
(* that int() and str.split(",") are computed, not assumed.  A serialized  *)
(* record is a function from field names to values; a value <<s, i, k>>    *)
(* says which serializer produced it, for which row and for which field.   *)
(***************************************************************************)
EXTENDS Integers, Sequences, FiniteSets, TLC

\* ------------------------------------------------------------------ bounds

\* Longest raw value of the extend_fields query parameter.
MaxFieldsLen == 3
\* Most rows the underlying list query returns.
MaxRecords == 2

\* The invocations that can be in progress.
Procs == {1, 2}

\* ------------------------------------------------------------ query strings

SeqsUpTo(S, n) == UNION {[1..k -> S] : k \in 0..n}

Absent == [present |-> FALSE, value |-> <<>>]
Given(s) == [present |-> TRUE, value |-> s]

\* Raw values of ?extended= a request may carry.
RawFlags ==
    {Absent, Given(<<>>), Given(<<"0">>), Given(<<"1">>), Given(<<"0", "0">>),
     Given(<<"1", "0">>), Given(<<"-", "1">>), Given(<<"-", "0">>), Given(<<"-">>),
     Given(<<" ", "1">>), Given(<<"x">>), Given(<<"1", "x">>)}

\* Raw values of ?extend_fields= a request may carry.
RawFields ==
    {Absent} \cup {Given(s) : s \in SeqsUpTo({"a", "b", ","}, MaxFieldsLen)}

\* The smaller inputs of interleaved invocations.
ConcurrentFlags == {Absent, Given(<<"1">>), Given(<<"x">>)}
ConcurrentFields == {Absent, Given(<<"a">>)}

Digits == {"0", "1", "2", "3", "4", "5", "6", "7", "8", "9"}

DigitVal(c) ==
    CASE c = "0" -> 0 [] c = "1" -> 1 [] c = "2" -> 2 [] c = "3" -> 3
      [] c = "4" -> 4 [] c = "5" -> 5 [] c = "6" -> 6 [] c = "7" -> 7
      [] c = "8" -> 8 [] c = "9" -> 9

RECURSIVE DigitsValue(_, _)
DigitsValue(s, acc) ==
    IF s = <<>> THEN acc ELSE DigitsValue(Tail(s), acc * 10 + DigitVal(Head(s)))

\* s without the blanks at its ends.
RECURSIVE Strip(_)
Strip(s) ==
    IF s = <<>> THEN s
    ELSE IF Head(s) = " " THEN Strip(Tail(s))
    ELSE IF s[Len(s)] = " " THEN Strip(SubSeq(s, 1, Len(s) - 1))
    ELSE s

\* int(request.query_params.get("extended", 0)): the default is the integer 0;
\* a string is, between blanks, an optional sign followed by at least one
\* decimal digit, and anything else raises ValueError.  (Underscores between
\* digits, which int() also accepts, are not among the characters drawn.)
PyInt(param) ==
    IF ~param.present THEN [ok |-> TRUE, value |-> 0]
    ELSE LET s == Strip(param.value)
             signed == s # <<>> /\ Head(s) \in {"+", "-"}
             body == IF signed THEN Tail(s) ELSE s
         IN  IF body = <<>> \/ \E i \in 1..Len(body) : body[i] \notin Digits
             THEN [ok |-> FALSE, value |-> 0]
             ELSE [ok |-> TRUE,
                   value |-> IF signed /\ Head(s) = "-"
                             THEN 0 - DigitsValue(body, 0)
                             ELSE DigitsValue(body, 0)]

\* s.split(","): the pieces between commas, empty pieces included.
RECURSIVE Split(_)
Split(s) ==
    IF \A i \in 1..Len(s) : s[i] # ","
    THEN <<s>>
    ELSE LET i == CHOOSE j \in 1..Len(s) :
                      s[j] = "," /\ \A k \in 1..(j - 1) : s[k] # ","
         IN  <<SubSeq(s, 1, i - 1)>> \o Split(SubSeq(s, i + 1, Len(s)))

NonEmpty(t) == t # <<>>

\* A faulty variant: the empty pieces are kept.
ParseExtendFieldsKeepingEmpty(param) ==
    Split(IF param.present THEN param.value ELSE <<>>)

\* [i for i in request.query_params.get("extend_fields", "").split(",") if i]
ParseExtendFields(param) ==
    SelectSeq(Split(IF param.present THEN param.value ELSE <<>>), NonEmpty)

\* -------------------------------------------------------------- serializers

DefaultSerializer == "DefaultSerializer"
ExtendedSerializer == "ExtendedSerializer"
None == "None"

FieldA == <<"a">>
FieldB == <<"b">>

\* The field sets a viewset's two serializers may declare.
FieldConfigs ==
    {[DefaultSerializer |-> {FieldA, FieldB}, ExtendedSerializer |-> {FieldA, FieldB}],
     [DefaultSerializer |-> {FieldA}, ExtendedSerializer |-> {FieldA, FieldB}],
     [DefaultSerializer |-> {FieldA, FieldB}, ExtendedSerializer |-> {FieldA}]}

Actions == {"retrieve", "list", "list_paginated"}
ConcurrentActions == {"retrieve"}
Pks == {1, 2}

NoData == [shape |-> "none", items |-> <<>>]
NoResponse == [data |-> NoData]
NoRequest == [action |-> "retrieve", extended |-> Absent, extend_fields |-> Absent, pk |-> 0]

VARIABLES
    extended_serializer_class, \* the viewset class's extended_serializer_class
    fields,                    \* the fields each serializer class declares
    instancing,                \* "shared": one viewset serves every request;
                               \* "per_request": each request gets a new one
    concurrent,                \* whether invocations may interleave
    serializer_class,          \* serializer_class of each viewset instance
    pc,                        \* each invocation's position in wrapper
    request,                   \* each invocation's request and arguments
    original_serializer,       \* wrapper's local original_serializer
    result,                    \* wrapper's local result
    result_extended,           \* wrapper's local result_extended
    extend_fields,             \* wrapper's local extend_fields
    returned,                  \* what wrapper returned to its caller
    error,                     \* the exception wrapper raised to its caller
    calls,                     \* the calls of function this invocation made
    failed_extended,           \* history: on this instance a call made with
                               \* the extended serializer installed has failed
    began_after_failure,       \* history: failed_extended when the invocation began
    overlapped                 \* history: two invocations were between the swap
                               \* and the end of the extended call at once

vars ==
    <<extended_serializer_class, fields, instancing, concurrent, serializer_class,
      pc, request, original_serializer, result, result_extended, extend_fields,
      returned, error, calls, failed_extended, began_after_failure, overlapped>>

config == <<extended_serializer_class, fields, instancing, concurrent>>

\* A faulty variant: every invocation runs on the one viewset.
InstanceShared(p) == 1

\* The viewset instance invocation p runs on.
Instance(p) == IF instancing = "shared" THEN 1 ELSE p

\* ------------------------------------------------------ the wrapped function

\* One row as the serializer class s renders it.
Serialize(s, row) == [k \in fields[s] |-> <<s, row, k>>]

\* What super().retrieve / super().list answer with serializer class s
\* installed: retrieve a single OrderedDict, list a list of them, and a
\* paginated list a plain dict around the rows.
View(action, s, pk, n) ==
    [data |->
        CASE action = "retrieve" ->
                 [shape |-> "OrderedDict", items |-> <<Serialize(s, pk)>>]
          [] action = "list" ->
                 [shape |-> "list", items |-> [i \in 1..n |-> Serialize(s, i)]]
          [] action = "list_paginated" ->
                 [shape |-> "dict", items |-> [i \in 1..n |-> Serialize(s, i)]]]

\* The arguments wrapper hands to function.
ForwardedArgs(p) == [action |-> request[p].action, pk |-> request[p].pk]

\* What function answers when invocation p calls it now, n rows being there.
Answer(p, n) ==
    View(ForwardedArgs(p).action, serializer_class[Instance(p)], ForwardedArgs(p).pk, n)

\* function(viewset, request, *args, **kwargs), as seen from outside: the
\* serializer installed during the call, the arguments, and the response
\* (none when the call raised).
Call(p, ok, n) ==
    [serializer |-> serializer_class[Instance(p)], args |-> ForwardedArgs(p),
     ok |-> ok, response |-> IF ok THEN Answer(p, n) ELSE NoResponse]

Rows(action) == IF action = "retrieve" THEN {1} ELSE 0..MaxRecords

\* ------------------------------------------------------------ reconciliation

\* A faulty variant: a selected field the record lacks is added to it.
RECURSIVE MergeRecordInserting(_, _, _)
MergeRecordInserting(record, extended, efs) ==
    IF efs = <<>> THEN [record |-> record, error |-> "none"]
    ELSE IF Head(efs) \notin DOMAIN extended
    THEN IF Head(efs) \in DOMAIN record
         THEN [record |-> record, error |-> "KeyError"]
         ELSE MergeRecordInserting(record, extended, Tail(efs))
    ELSE MergeRecordInserting(
             [k \in DOMAIN record \cup {Head(efs)} |->
                 IF k = Head(efs) THEN extended[k] ELSE record[k]],
             extended, Tail(efs))

\* for ef in extend_fields: if ef in record: record[ef] = extended[ef]
RECURSIVE MergeRecord(_, _, _)
MergeRecord(record, extended, efs) ==
    IF efs = <<>> THEN [record |-> record, error |-> "none"]
    ELSE IF Head(efs) \notin DOMAIN record THEN MergeRecord(record, extended, Tail(efs))
    ELSE IF Head(efs) \notin DOMAIN extended THEN [record |-> record, error |-> "KeyError"]
    ELSE MergeRecord([record EXCEPT ![Head(efs)] = extended[Head(efs)]],
                     extended, Tail(efs))

\* A faulty variant: every record is merged with the first extended record.
RECURSIVE MergeListFirstRecord(_, _, _, _)
MergeListFirstRecord(items, extended, idx, efs) ==
    IF idx > Len(items) THEN [items |-> items, error |-> "none"]
    ELSE IF \A i \in 1..Len(efs) : efs[i] \notin DOMAIN items[idx]
    THEN MergeListFirstRecord(items, extended, idx + 1, efs)
    ELSE IF idx > Len(extended) THEN [items |-> items, error |-> "IndexError"]
    ELSE LET m == MergeRecord(items[idx], extended[1], efs)
             merged == [items EXCEPT ![idx] = m.record]
         IN  IF m.error # "none" THEN [items |-> merged, error |-> m.error]
             ELSE MergeListFirstRecord(merged, extended, idx + 1, efs)

\* for idx in range(len(result.data)): ... result_extended.data[idx][ef]
RECURSIVE MergeList(_, _, _, _)
MergeList(items, extended, idx, efs) ==
    IF idx > Len(items) THEN [items |-> items, error |-> "none"]
    ELSE IF \A i \in 1..Len(efs) : efs[i] \notin DOMAIN items[idx]
    THEN MergeList(items, extended, idx + 1, efs)
    ELSE IF idx > Len(extended) THEN [items |-> items, error |-> "IndexError"]
    ELSE LET m == MergeRecord(items[idx], extended[idx], efs)
             merged == [items EXCEPT ![idx] = m.record]
         IN  IF m.error # "none" THEN [items |-> merged, error |-> m.error]
             ELSE MergeList(merged, extended, idx + 1, efs)

IsSequence(data) == data.shape \in {"list", "tuple"}
IsOrderedDict(data) == data.shape = "OrderedDict"

\* A faulty variant: whatever is not a single ordered record is walked as a sequence.
ReconciledElseSequence(data, extended, efs) ==
    IF IsOrderedDict(data)
    THEN LET m == MergeRecord(data.items[1], extended.items[1], efs)
         IN  [data |-> [data EXCEPT !.items = <<m.record>>], error |-> m.error]
    ELSE LET m == MergeList(data.items, extended.items, 1, efs)
         IN  [data |-> [data EXCEPT !.items = m.items], error |-> m.error]

\* Lines 45-55: result.data after the in-place reconciliation, and the
\* exception it ran into, if any.
Reconciled(data, extended, efs) ==
    IF IsSequence(data)
    THEN LET m == MergeList(data.items, extended.items, 1, efs)
         IN  [data |-> [data EXCEPT !.items = m.items], error |-> m.error]
    ELSE IF IsOrderedDict(data)
    THEN LET m == MergeRecord(data.items[1], extended.items[1], efs)
         IN  [data |-> [data EXCEPT !.items = <<m.record>>], error |-> m.error]
    ELSE [data |-> data, error |-> "none"]

\* ------------------------------------------------------------------- state

Init ==
    /\ extended_serializer_class \in {None, ExtendedSerializer}
    /\ fields \in FieldConfigs
    /\ instancing \in {"shared", "per_request"}
    /\ concurrent \in BOOLEAN
    /\ serializer_class = [h \in Procs |-> DefaultSerializer]
    /\ pc = [p \in Procs |-> "idle"]
    /\ request = [p \in Procs |-> NoRequest]
    /\ original_serializer = [p \in Procs |-> None]
    /\ result = [p \in Procs |-> NoResponse]
    /\ result_extended = [p \in Procs |-> NoResponse]
    /\ extend_fields = [p \in Procs |-> <<>>]
    /\ returned = [p \in Procs |-> NoResponse]
    /\ error = [p \in Procs |-> "none"]
    /\ calls = [p \in Procs |-> <<>>]
    /\ failed_extended = [h \in Procs |-> FALSE]
    /\ began_after_failure = [p \in Procs |-> FALSE]
    /\ overlapped = FALSE

\* Two invocations stand between the swap and the end of the extended call.
Overlap(pcs) == \E p, q \in Procs : p # q /\ pcs[p] = "second" /\ pcs[q] = "second"

\* Invocation p moves to position next.
Goto(p, next) ==
    /\ pc' = [pc EXCEPT ![p] = next]
    /\ overlapped' = (overlapped \/ Overlap([pc EXCEPT ![p] = next]))

\* ----------------------------------------------------------------- actions

\* A request reaches retrieve or list of the mixin, which is wrapper: on the
\* shared viewset, or on one constructed for this request.
Dispatch(p) ==
    /\ pc[p] = "idle"
    /\ concurrent \/ p = 1
    /\ \E action \in (IF concurrent THEN ConcurrentActions ELSE Actions),
          flag \in (IF concurrent THEN ConcurrentFlags ELSE RawFlags),
          efs \in (IF concurrent THEN ConcurrentFields ELSE RawFields) :
         \E pk \in (IF action = "retrieve" /\ ~concurrent THEN Pks ELSE {1}) :
            request' = [request EXCEPT ![p] =
                           [action |-> action, extended |-> flag,
                            extend_fields |-> efs, pk |-> pk]]
    /\ serializer_class' =
           IF instancing = "per_request"
           THEN [serializer_class EXCEPT ![p] = DefaultSerializer]
           ELSE serializer_class
    /\ failed_extended' =
           IF instancing = "per_request"
           THEN [failed_extended EXCEPT ![p] = FALSE]
           ELSE failed_extended
    /\ began_after_failure' =
           [began_after_failure EXCEPT ![p] = failed_extended'[Instance(p)]]
    /\ Goto(p, "enter")
    /\ UNCHANGED <<config, original_serializer, result, result_extended,
                   extend_fields, returned, error, calls>>

\* The caller has the response or the exception; wrapper's frame is gone.
Finish(p) ==
    /\ pc[p] \in {"done", "raised"}
    /\ request' = [request EXCEPT ![p] = NoRequest]
    /\ original_serializer' = [original_serializer EXCEPT ![p] = None]
    /\ result' = [result EXCEPT ![p] = NoResponse]
    /\ result_extended' = [result_extended EXCEPT ![p] = NoResponse]
    /\ extend_fields' = [extend_fields EXCEPT ![p] = <<>>]
    /\ returned' = [returned EXCEPT ![p] = NoResponse]
    /\ error' = [error EXCEPT ![p] = "none"]
    /\ calls' = [calls EXCEPT ![p] = <<>>]
    /\ began_after_failure' = [began_after_failure EXCEPT ![p] = FALSE]
    /\ Goto(p, "idle")
    /\ UNCHANGED <<config, serializer_class, failed_extended>>

\* A faulty variant: the check for a missing extended serializer is left out.
CheckExtendedNoFastPath(p) ==
    /\ pc[p] = "enter"
    /\ Goto(p, "first")
    /\ original_serializer' =
           [original_serializer EXCEPT ![p] = serializer_class[Instance(p)]]
    /\ UNCHANGED <<config, serializer_class, request, result, result_extended,
                   extend_fields, returned, error, calls, failed_extended,
                   began_after_failure>>

\* Lines 14 and 18: without an extended serializer go to the plain call,
\* otherwise remember the viewset's serializer.
CheckExtended(p) ==
    /\ pc[p] = "enter"
    /\ IF extended_serializer_class = None
       THEN /\ Goto(p, "passthrough")
            /\ UNCHANGED original_serializer
       ELSE /\ Goto(p, "first")
            /\ original_serializer' =
                   [original_serializer EXCEPT ![p] = serializer_class[Instance(p)]]
    /\ UNCHANGED <<config, serializer_class, request, result, result_extended,
                   extend_fields, returned, error, calls, failed_extended,
                   began_after_failure>>

\* Line 15: return function(viewset, request, *args, **kwargs)
Passthrough(p) ==
    /\ pc[p] = "passthrough"
    /\ \E ok \in BOOLEAN, n \in Rows(request[p].action) :
         /\ calls' = [calls EXCEPT ![p] = Append(@, Call(p, ok, n))]
         /\ IF ok
            THEN /\ returned' = [returned EXCEPT ![p] = Answer(p, n)]
                 /\ Goto(p, "done")
                 /\ UNCHANGED error
            ELSE /\ error' = [error EXCEPT ![p] = "APIException"]
                 /\ Goto(p, "raised")
                 /\ UNCHANGED returned
    /\ UNCHANGED <<config, serializer_class, request, original_serializer, result,
                   result_extended, extend_fields, failed_extended,
                   began_after_failure>>

\* Line 20: result = function(viewset, request, *args, **kwargs)
DefaultCall(p) ==
    /\ pc[p] = "first"
    /\ \E ok \in BOOLEAN, n \in Rows(request[p].action) :
         /\ calls' = [calls EXCEPT ![p] = Append(@, Call(p, ok, n))]
         /\ IF ok
            THEN /\ result' = [result EXCEPT ![p] = Answer(p, n)]
                 /\ Goto(p, "flag")
                 /\ UNCHANGED error
            ELSE /\ error' = [error EXCEPT ![p] = "APIException"]
                 /\ Goto(p, "raised")
                 /\ UNCHANGED result
    /\ UNCHANGED <<config, serializer_class, request, original_serializer,
                   result_extended, extend_fields, returned, failed_extended,
                   began_after_failure>>

\* Lines 24-25: if not int(request.query_params.get("extended", 0)): return result
ExtendedFlag(p) ==
    /\ pc[p] = "flag"
    /\ LET v == PyInt(request[p].extended)
       IN  IF ~v.ok
           THEN /\ error' = [error EXCEPT ![p] = "ValueError"]
                /\ Goto(p, "raised")
                /\ UNCHANGED returned
           ELSE IF v.value = 0
           THEN /\ returned' = [returned EXCEPT ![p] = result[p]]
                /\ Goto(p, "done")
                /\ UNCHANGED error
           ELSE /\ Goto(p, "fields")
                /\ UNCHANGED <<returned, error>>
    /\ UNCHANGED <<config, serializer_class, request, original_serializer, result,
                   result_extended, extend_fields, calls, failed_extended,
                   began_after_failure>>

\* Lines 29-31: extend_fields = [...]
ExtendFields(p) ==
    /\ pc[p] = "fields"
    /\ extend_fields' =
           [extend_fields EXCEPT ![p] = ParseExtendFields(request[p].extend_fields)]
    /\ Goto(p, "swap")
    /\ UNCHANGED <<config, serializer_class, request, original_serializer, result,
                   result_extended, returned, error, calls, failed_extended,
                   began_after_failure>>

\* Line 35: viewset.serializer_class = viewset.extended_serializer_class
SwapSerializer(p) ==
    /\ pc[p] = "swap"
    /\ serializer_class' =
           [serializer_class EXCEPT ![Instance(p)] = extended_serializer_class]
    /\ Goto(p, "second")
    /\ UNCHANGED <<config, request, original_serializer, result, result_extended,
                   extend_fields, returned, error, calls, failed_extended,
                   began_after_failure>>

\* A faulty variant: the extended call sits in try/finally, which puts the remembered
\* serializer back when the call fails.
ExtendedCallRestoring(p) ==
    /\ pc[p] = "second"
    /\ \E ok \in BOOLEAN, n \in Rows(request[p].action) :
         /\ calls' = [calls EXCEPT ![p] = Append(@, Call(p, ok, n))]
         /\ IF ok
            THEN /\ result_extended' = [result_extended EXCEPT ![p] = Answer(p, n)]
                 /\ Goto(p, "reconcile")
                 /\ UNCHANGED <<error, failed_extended, serializer_class>>
            ELSE /\ error' = [error EXCEPT ![p] = "APIException"]
                 /\ failed_extended' = [failed_extended EXCEPT ![Instance(p)] = TRUE]
                 /\ serializer_class' =
                        [serializer_class EXCEPT ![Instance(p)] = original_serializer[p]]
                 /\ Goto(p, "raised")
                 /\ UNCHANGED result_extended
    /\ UNCHANGED <<config, request, original_serializer, result,
                   extend_fields, returned, began_after_failure>>

\* Line 36: result_extended = function(viewset, request, *args, **kwargs)
ExtendedCall(p) ==
    /\ pc[p] = "second"
    /\ \E ok \in BOOLEAN, n \in Rows(request[p].action) :
         /\ calls' = [calls EXCEPT ![p] = Append(@, Call(p, ok, n))]
         /\ IF ok
            THEN /\ result_extended' = [result_extended EXCEPT ![p] = Answer(p, n)]
                 /\ Goto(p, "reconcile")
                 /\ UNCHANGED <<error, failed_extended>>
            ELSE /\ error' = [error EXCEPT ![p] = "APIException"]
                 /\ failed_extended' = [failed_extended EXCEPT ![Instance(p)] = TRUE]
                 /\ Goto(p, "raised")
                 /\ UNCHANGED result_extended
    /\ UNCHANGED <<config, serializer_class, request, original_serializer, result,
                   extend_fields, returned, began_after_failure>>

\* Lines 39-57: the whole extended result, or result reconciled in place.
Reconcile(p) ==
    /\ pc[p] = "reconcile"
    /\ IF extend_fields[p] = <<>>
       THEN /\ returned' = [returned EXCEPT ![p] = result_extended[p]]
            /\ Goto(p, "done")
            /\ UNCHANGED <<result, error>>
       ELSE LET r == Reconciled(result[p].data, result_extended[p].data,
                                extend_fields[p])
            IN  /\ result' = [result EXCEPT ![p] = [data |-> r.data]]
                /\ IF r.error = "none"
                   THEN /\ returned' = [returned EXCEPT ![p] = [data |-> r.data]]
                        /\ Goto(p, "done")
                        /\ UNCHANGED error
                   ELSE /\ error' = [error EXCEPT ![p] = r.error]
                        /\ Goto(p, "raised")
                        /\ UNCHANGED returned
    /\ UNCHANGED <<config, serializer_class, request, original_serializer,
                   result_extended, extend_fields, calls, failed_extended,
                   began_after_failure>>

Next ==
    \E p \in Procs :
        \/ Dispatch(p)
        \/ CheckExtended(p)
        \/ Passthrough(p)
        \/ DefaultCall(p)
        \/ ExtendedFlag(p)
        \/ ExtendFields(p)
        \/ SwapSerializer(p)
        \/ ExtendedCall(p)
        \/ Reconcile(p)
        \/ Finish(p)

\* One invocation at a time.
InitSequential == Init /\ ~concurrent
Spec == InitSequential /\ [][Next]_vars

\* Two invocations whose steps interleave.
InitConcurrent == Init /\ concurrent
SpecConcurrent == InitConcurrent /\ [][Next]_vars

\* ---------------------------------------------------- what the claims speak of

Configured == extended_serializer_class # None

\* The raw values of ?extended= by what int() makes of them.
ZeroFlags == {Absent, Given(<<"0">>), Given(<<"0", "0">>), Given(<<"-", "0">>)}
NonzeroFlags ==
    {Given(<<"1">>), Given(<<"1", "0">>), Given(<<"-", "1">>), Given(<<" ", "1">>)}
MalformedFlags == RawFlags \ (ZeroFlags \cup NonzeroFlags)

\* raw[i..j] is a nonempty stretch without commas that commas or the ends bound.
IsSegment(raw, i, j) ==
    /\ 1 <= i /\ i <= j /\ j <= Len(raw)
    /\ \A k \in i..j : raw[k] # ","
    /\ i = 1 \/ raw[i - 1] = ","
    /\ j = Len(raw) \/ raw[j + 1] = ","

\* The field names ?extend_fields= selects.
Selected(param) ==
    IF ~param.present THEN {}
    ELSE {SubSeq(param.value, i, j) : <<i, j>> \in
             {ij \in (1..Len(param.value)) \X (1..Len(param.value)) :
                 IsSegment(param.value, ij[1], ij[2])}}

\* Invocation p returned, its request asking for extended with selectors.
MergedReturn(p) ==
    /\ Configured
    /\ pc[p] = "done"
    /\ request[p].extended \in NonzeroFlags
    /\ Selected(request[p].extend_fields) # {}

\* The response of the i-th call invocation p made.
Response(p, i) == calls[p][i].response

\* Every value of the response was rendered by serializer class s.
RenderedBy(response, s) ==
    \A i \in 1..Len(response.data.items) :
        \A k \in DOMAIN response.data.items[i] : response.data.items[i][k][1] = s

\* ------------------------------------------------------------------ claims

\* C1: for a viewset with an extended serializer configured, after any
\* invocation of the wrapped operation the viewset's serializer_class equals
\* the value it had immediately before that invocation.
C1_Restoration ==
    \A p \in Procs :
        (Configured /\ pc[p] = "done")
            => serializer_class[Instance(p)] = original_serializer[p]

\* The extended serializer was installed during none of invocation p's calls.
ExtendedNeverInvoked(p) ==
    \A i \in 1..Len(calls[p]) :
        calls[p][i].serializer # extended_serializer_class

\* Invocation p has left the viewset's serializer_class as it found it.
SerializerKept(p) ==
    pc[p] \notin {"idle", "enter"}
        => serializer_class[Instance(p)] = original_serializer[p]

\* C2: with an extended serializer configured and extended absent or 0, the
\* wrapper returns the result of the single call it made, under the default
\* serializer; the extended serializer is neither installed nor invoked, and
\* extend_fields plays no part.
\* (Stated for viewsets on which no extended call has ever failed.)
C2_DefaultPath ==
    \A p \in Procs :
        (Configured /\ pc[p] = "done" /\ request[p].extended \in ZeroFlags
            /\ ~began_after_failure[p])
            => /\ Len(calls[p]) = 1
               /\ returned[p] = Response(p, 1)
               /\ SerializerKept(p)
               /\ ExtendedNeverInvoked(p)
               /\ RenderedBy(returned[p], DefaultSerializer)

\* C2 on a viewset constructed for the request.
C2_OnNewViewSet ==
    \A p \in Procs :
        (Configured /\ pc[p] = "done" /\ request[p].extended \in ZeroFlags
            /\ instancing = "per_request")
            => /\ Len(calls[p]) = 1
               /\ returned[p] = Response(p, 1)
               /\ SerializerKept(p)
               /\ ExtendedNeverInvoked(p)
               /\ RenderedBy(returned[p], DefaultSerializer)

\* C3: without an extended serializer the wrapper calls the operation exactly
\* once with the arguments it was given and returns that result unchanged,
\* whatever extended and extend_fields hold (a malformed extended is never
\* parsed), and serializer_class is not touched.
C3_Passthrough ==
    \A p \in Procs :
        ~Configured
            => /\ serializer_class[Instance(p)] = DefaultSerializer
               /\ Len(calls[p]) <= 1
               /\ error[p] # "ValueError"
               /\ pc[p] \in {"done", "raised"}
                    => /\ Len(calls[p]) = 1
                       /\ calls[p][1].args =
                              [action |-> request[p].action, pk |-> request[p].pk]
                       /\ calls[p][1].serializer = DefaultSerializer
                       /\ calls[p][1].ok = (pc[p] = "done")
                       /\ returned[p] = Response(p, 1)

C3_Witness ==
    \E p \in Procs :
        /\ ~Configured
        /\ pc[p] = "done"
        /\ request[p].extended \in MalformedFlags
        /\ request[p].extend_fields = Given(<<"a">>)
        /\ request[p].pk = 2
        /\ returned[p] = [data |-> [shape |-> "OrderedDict",
                                    items |-> <<Serialize(DefaultSerializer, 2)>>]]

\* C4: with extended nonzero and extend_fields absent, empty or made of commas
\* only, the wrapper returns exactly the result of the second call, which ran
\* with the extended serializer installed; the default result is dropped
\* unmerged.
C4_FullUpgrade ==
    \A p \in Procs :
        (Configured /\ pc[p] = "done" /\ request[p].extended \in NonzeroFlags
            /\ Selected(request[p].extend_fields) = {})
            => /\ Len(calls[p]) = 2
               /\ calls[p][2].serializer = ExtendedSerializer
               /\ returned[p] = Response(p, 2)
               /\ RenderedBy(returned[p], ExtendedSerializer)
               /\ result[p] = Response(p, 1)

C4_Witness ==
    \E p \in Procs :
        /\ Configured
        /\ pc[p] = "done"
        /\ request[p].extended = Given(<<"-", "1">>)
        /\ request[p].extend_fields = Given(<<",", ",">>)
        /\ request[p].action = "list"
        /\ Len(returned[p].data.items) = 2
        /\ Len(result[p].data.items) = 1
        /\ RenderedBy(result[p], DefaultSerializer)
        /\ returned[p] = Response(p, 2)

\* C5: selective merge on a collection.  With extended nonzero and a nonempty
\* selector list, when the default result's data is a list of records the
\* wrapper returns the default result in which record i has, for each of its
\* keys k, the extended result's record i value of k if k is selected and its
\* own value otherwise; the records are as many and in the order of the
\* default result.
C5_SelectiveMergeList ==
    \A p \in Procs :
        (MergedReturn(p) /\ IsSequence(Response(p, 1).data))
            => LET default == Response(p, 1).data.items
                   extended == Response(p, 2).data.items
                   out == returned[p].data.items
                   selected == Selected(request[p].extend_fields)
               IN  /\ returned[p] = result[p]
                   /\ returned[p].data.shape = Response(p, 1).data.shape
                   /\ Len(out) = Len(default)
                   /\ \A i \in 1..Len(default) :
                        /\ DOMAIN out[i] = DOMAIN default[i]
                        /\ \A k \in DOMAIN default[i] :
                             IF k \in selected
                             THEN /\ i <= Len(extended)
                                  /\ k \in DOMAIN extended[i]
                                  /\ out[i][k] = extended[i][k]
                                  /\ out[i][k] = <<ExtendedSerializer, i, k>>
                             ELSE out[i][k] = default[i][k]

C5_Witness ==
    \E p \in Procs :
        /\ MergedReturn(p)
        /\ request[p].action = "list"
        /\ request[p].extend_fields = Given(<<"b", ",", "b">>)
        /\ Len(returned[p].data.items) = 2
        /\ Len(Response(p, 2).data.items) = 2
        /\ RenderedBy(Response(p, 1), DefaultSerializer)
        /\ \A i \in 1..2 :
             /\ DOMAIN returned[p].data.items[i] = {FieldA, FieldB}
             /\ returned[p].data.items[i][FieldA] = <<DefaultSerializer, i, FieldA>>
             /\ returned[p].data.items[i][FieldB] = <<ExtendedSerializer, i, FieldB>>

\* C6: with an extended serializer configured, an extended value that int()
\* cannot parse makes the wrapper raise ValueError to the caller; it never
\* returns a result, the extended serializer is never installed or invoked,
\* and serializer_class keeps its value.
\* (Stated for viewsets on which no extended call has ever failed.)
C6_MalformedFlag ==
    \A p \in Procs :
        (Configured /\ request[p].extended \in MalformedFlags
            /\ ~began_after_failure[p])
            => /\ pc[p] # "done"
               /\ returned[p] = NoResponse
               /\ Len(calls[p]) <= 1
               /\ SerializerKept(p)
               /\ (pc[p] = "raised" /\ calls[p][1].ok)
                    => /\ error[p] = "ValueError"
                       /\ ExtendedNeverInvoked(p)

\* C6 on a viewset constructed for the request.
C6_OnNewViewSet ==
    \A p \in Procs :
        (Configured /\ request[p].extended \in MalformedFlags
            /\ instancing = "per_request")
            => /\ pc[p] # "done"
               /\ returned[p] = NoResponse
               /\ Len(calls[p]) <= 1
               /\ SerializerKept(p)
               /\ (pc[p] = "raised" /\ calls[p][1].ok)
                    => /\ error[p] = "ValueError"
                       /\ ExtendedNeverInvoked(p)

\* C7: selective merge on a single record, without insertion.  With extended
\* nonzero and a nonempty selector list, when the default result's data is a
\* single record the returned record has exactly the default record's keys;
\* a selected key of the default record takes the extended record's value,
\* every other key keeps its value, and a selected name that is no key of the
\* default record is not added even if the extended record has it.
C7_SelectiveMergeRecord ==
    \A p \in Procs :
        (MergedReturn(p) /\ IsOrderedDict(Response(p, 1).data))
            => LET default == Response(p, 1).data.items[1]
                   extended == Response(p, 2).data.items[1]
                   selected == Selected(request[p].extend_fields)
               IN  /\ returned[p] = result[p]
                   /\ returned[p].data.shape = "OrderedDict"
                   /\ Len(returned[p].data.items) = 1
                   /\ DOMAIN returned[p].data.items[1] = DOMAIN default
                   /\ \A k \in DOMAIN default :
                        IF k \in selected
                        THEN /\ k \in DOMAIN extended
                             /\ returned[p].data.items[1][k] = extended[k]
                        ELSE returned[p].data.items[1][k] = default[k]

C7_Witness ==
    \E p \in Procs :
        /\ MergedReturn(p)
        /\ request[p].action = "retrieve"
        /\ request[p].extend_fields = Given(<<"b", ",", "a">>)
        /\ FieldB \in DOMAIN Response(p, 2).data.items[1]
        /\ DOMAIN returned[p].data.items[1] = {FieldA}
        /\ returned[p].data.items[1][FieldA] = <<ExtendedSerializer, 1, FieldA>>

\* C10: shape fallback.  With extended nonzero and a nonempty selector list,
\* when the default result's data is neither a list or tuple nor a single
\* ordered record, nothing is reconciled and nothing is raised: the wrapper
\* returns the default result exactly as the first call produced it, although
\* the extended call was made.
C10_ShapeFallback ==
    \A p \in Procs :
        (/\ Configured
         /\ request[p].extended \in NonzeroFlags
         /\ Selected(request[p].extend_fields) # {}
         /\ Len(calls[p]) = 2
         /\ calls[p][2].ok
         /\ ~IsSequence(Response(p, 1).data)
         /\ ~IsOrderedDict(Response(p, 1).data))
            => /\ pc[p] \in {"reconcile", "done"}
               /\ error[p] = "none"
               /\ result[p] = Response(p, 1)
               /\ pc[p] = "done" => returned[p] = Response(p, 1)

C10_Witness ==
    \E p \in Procs :
        /\ MergedReturn(p)
        /\ request[p].action = "list_paginated"
        /\ request[p].extend_fields = Given(<<"a">>)
        /\ Len(calls[p]) = 2
        /\ calls[p][2].serializer = ExtendedSerializer
        /\ Len(Response(p, 2).data.items) = 2
        /\ Len(returned[p].data.items) = 2
        /\ RenderedBy(returned[p], DefaultSerializer)

\* C9: failure of the extended call.  With extended nonzero, if the second
\* call, made with the extended serializer installed, fails, the error reaches
\* the caller and the viewset's serializer_class stays the extended serializer
\* instead of going back to what it was, so a later invocation on the same
\* viewset takes its 'default' result from the extended serializer.
C9_ExtendedFailure ==
    \A p \in Procs :
        /\ (Configured /\ Len(calls[p]) = 2 /\ ~calls[p][2].ok)
              => /\ pc[p] = "raised"
                 /\ error[p] = "APIException"
                 /\ returned[p] = NoResponse
                 /\ calls[p][2].serializer = ExtendedSerializer
                 /\ serializer_class[Instance(p)] = ExtendedSerializer
                 /\ original_serializer[p] = DefaultSerializer
                      => serializer_class[Instance(p)] # original_serializer[p]
        /\ (began_after_failure[p] /\ Len(calls[p]) >= 1)
              => /\ calls[p][1].serializer = ExtendedSerializer
                 /\ calls[p][1].ok => RenderedBy(Response(p, 1), ExtendedSerializer)

C9_Witness ==
    \E p \in Procs :
        /\ instancing = "shared"
        /\ began_after_failure[p]
        /\ pc[p] = "done"
        /\ request[p].extended = Given(<<"0">>)
        /\ request[p].action = "list"
        /\ Len(returned[p].data.items) = 2
        /\ RenderedBy(returned[p], ExtendedSerializer)

\* No invocation that asked for the default payload returned one that the
\* extended serializer rendered.
NoLeak ==
    \A p \in Procs :
        (Configured /\ pc[p] = "done" /\ request[p].extended \in ZeroFlags)
            => /\ calls[p][1].serializer = DefaultSerializer
               /\ RenderedBy(returned[p], DefaultSerializer)

\* C8, as stated: on a shared viewset interleaved invocations can leak the
\* extended serializer into a default-mode response; with one viewset per
\* invocation, or with the swap-and-second-call sections never overlapping,
\* that does not happen.
C8_IsolatedOrExcluded == (instancing = "per_request" \/ ~overlapped) => NoLeak

\* C8, amended: with one viewset instance per invocation no default-mode
\* invocation returns a payload rendered by the extended serializer.
C8_Isolated == instancing = "per_request" => NoLeak

\* The hazard itself: q has swapped and not yet finished its second call, and
\* p, which entered while the default serializer was installed and asked for
\* the default payload, has returned the extended one.
C8_Witness ==
    \E p, q \in Procs :
        /\ p # q
        /\ instancing = "shared"
        /\ Configured
        /\ pc[q] = "second"
        /\ pc[p] = "done"
        /\ request[p].extended \in ZeroFlags
        /\ original_serializer[p] = DefaultSerializer
        /\ calls[p][1].serializer = ExtendedSerializer
        /\ RenderedBy(returned[p], ExtendedSerializer)
        /\ returned[p].data.items # <<>>

====
